---------------------------- MODULE Spec2Model ----------------------------
(***************************************************************************)
(* dmenv: the Project facade (src/src/project.rs) and the legacy App       *)
(* facade (src/src/app.rs) over a project directory holding setup.py, a    *)
(* lock file and a virtualenv.  Spec runs the operations of Project,       *)
(* SpecApp those of App, SpecTidy the operations that write the lock file  *)
(* together with tidy.                                                     *)
(*                                                                         *)
(* The state is the part of the file system the facade reads and writes,   *)
(* together with a record of the last operation: the file system as the    *)
(* operation found it, what it returned, and the child processes and lock  *)
(* writes it performed, in order.  Every child process may exit zero or    *)
(* non-zero; that choice is the environment's.                             *)
(***************************************************************************)
EXTENDS Naturals, Sequences, FiniteSets

VARIABLES
    venv,          \* paths.venv: "absent", "partial" (directory without binaries) or "ready"
    lock_file,     \* paths.lock: [exists, lines]
    setup_py,      \* paths.setup_py: [exists, lines]
    production,    \* settings.production
    working_dir,   \* App::new's working_dir: "cwd" (none given, or the process's own) or "elsewhere"
    cwd_lock,      \* requirements.lock of the process's directory when that is not the project's
    createdDirs,   \* creation commands since the last clean that left a directory
    lastOp,        \* the operation that ran last
    lastArg,       \* its argument: the post-install action, the command line, the new content
    pre,           \* the file system as the last operation found it
    result,        \* what the last operation returned: "Ok" or the error kind
    errPath,       \* the path the message of App's error names, if it names one
    trace,         \* child processes started and lock writes done by the last operation
    frozen         \* pip freeze of the last operation: its output and get_frozen_deps' answer

vars == <<venv, lock_file, setup_py, production, working_dir, cwd_lock, createdDirs, lastOp, lastArg, pre, result, errPath, trace, frozen>>

---------------------------------------------------------------------------
(* Bounds *)

\* longest pip freeze output, in lines
MaxFreezeLen == 2

\* longest output of the pip freeze App::freeze runs, in lines
MaxStdoutLen == 1

---------------------------------------------------------------------------
(* Text: a line is a sequence of tokens *)

PinLine(name, version) == <<name, "==", version>>

RefLine(name, ref) == <<name, "@", ref>>

\* the lines pip freeze prints in this model: two registry pins, one
\* source-reference pin and one line of neither form
FreezeLines ==
    { PinLine("a", "1"), PinLine("pkg-resources", "0"),
      RefLine("b", "git"), <<"junk">> }

SeqsUpTo(S, n) == UNION { [1..k -> S] : k \in 0..n }

\* pip freeze prints one line per installed distribution: no line twice
NoRepeat(text) == \A i, j \in 1..Len(text) : text[i] = text[j] => i = j

FreezeOutputs == { text \in SeqsUpTo(FreezeLines, MaxFreezeLen) : NoRepeat(text) }

NoFile == [exists |-> FALSE, lines |-> <<>>]

File(lines) == [exists |-> TRUE, lines |-> lines]

---------------------------------------------------------------------------
(* Dependency records and the lock text *)

Dep(name, version, source_ref) ==
    [name |-> name, version |-> version, source_ref |-> source_ref]

NoDep == Dep("", "", "")

\* FrozenDependency::from_string: `name==version` or `name @ <ref>`, anything
\* else is malformed
from_string(line) ==
    IF Len(line) = 3 /\ line[2] = "=="
    THEN [ok |-> TRUE, dep |-> Dep(line[1], line[3], "")]
    ELSE IF Len(line) = 3 /\ line[2] = "@"
    THEN [ok |-> TRUE, dep |-> Dep(line[1], "", line[3])]
    ELSE [ok |-> FALSE, dep |-> NoDep]

\* Project::get_metadata
get_metadata ==
    [dmenv_version |-> "dmenv-0", python_platform |-> "linux", python_version |-> "3"]

DepLine(d) ==
    IF d.source_ref = "" THEN PinLine(d.name, d.version) ELSE RefLine(d.name, d.source_ref)

\* the text operations::lock_dependencies writes: the metadata as comment
\* lines, then one line per record in the order given
Serialize(deps, metadata) ==
    << <<"#", "dmenv", metadata.dmenv_version>>,
       <<"#", "python", metadata.python_version>>,
       <<"#", "platform", metadata.python_platform>> >>
    \o [i \in 1..Len(deps) |-> DepLine(deps[i])]

---------------------------------------------------------------------------
(* The run of one operation: the file system it works on, the error it     *)
(* stopped with ("none" while it runs on) and what it has done so far.     *)
(* A step of an operation maps a run to the set of runs the environment    *)
(* (the exit status of a child process, the text it prints, what a failed  *)
(* creation or removal leaves on disk) can turn it into.                   *)

NoFreeze == [ran |-> FALSE, out |-> <<>>, returned |-> FALSE, deps |-> <<>>]

Begin ==
    [venv |-> venv, lock_file |-> lock_file, setup_py |-> setup_py,
     cwd_lock |-> cwd_lock,
     err |-> "none", errPath |-> <<>>, trace |-> <<>>, frozen |-> NoFreeze]

Failed(c) == c.err # "none"

Fail(c, kind) == [c EXCEPT !.err = kind]

\* the `?` operator: of the runs a step may end in, those that failed are
\* returned as they are (Aborted), the next step is applied to the others
Succeeded(runs) == { c \in runs : ~Failed(c) }

Aborted(runs) == { c \in runs : Failed(c) }

\* a child process ran `cmd` and exited with `exit`; a non-zero exit is reported
\* by the caller as the error `kind`
Exited(c, cmd, exit) == [c EXCEPT !.trace = Append(@, [cmd |-> cmd, exit |-> exit])]

ChildOutcomes(c, cmd, kind) ==
    { Exited(c, cmd, 0), Fail(Exited(c, cmd, 1), kind) }

---------------------------------------------------------------------------
(* VenvRunner and operations::venv *)

VenvBinaries == {"python", "pip"}

\* <venv>/bin/<name> exists
BinaryExists(v, name) == v = "ready" /\ name \in VenvBinaries

\* VenvRunner::resolve_path
Resolves(v, name) == BinaryExists(v, name)

\* VenvRunner::run: resolve the binary, start it in the project directory,
\* fail when it exits non-zero
venv_runner_run(c, name, cmd) ==
    IF ~Resolves(c.venv, name) THEN { Fail(c, "BinaryNotFound") }
    ELSE ChildOutcomes(c, cmd, "ExternalCommandFailed")

\* VenvRunner::get_output: as run, and the text the child printed
venv_runner_get_output(c, name, cmd) ==
    IF ~Resolves(c.venv, name) THEN { Fail(c, "BinaryNotFound") }
    ELSE { Fail(Exited(c, cmd, 1), "ExternalCommandFailed") }
         \cup { [Exited(c, cmd, 0) EXCEPT !.frozen.ran = TRUE, !.frozen.out = out] :
                    out \in FreezeOutputs }

\* operations::venv::create: `python -m venv <path>`; a failed creation
\* leaves no directory or one without binaries
venv_create(c) ==
    { [Exited(c, <<"python", "-m", "venv">>, 0) EXCEPT !.venv = "ready"] }
    \cup { [Fail(Exited(c, <<"python", "-m", "venv">>, 1), "EnvironmentCreationFailed")
               EXCEPT !.venv = left] : left \in {"absent", "partial"} }

\* operations::venv::expect
venv_expect(c) ==
    IF c.venv = "absent" THEN { Fail(c, "MissingEnvironment") } ELSE { c }

\* operations::venv::clean: no-op when absent, else remove the directory
\* tree; a failed removal leaves the directory, whole or in part
venv_clean(c) ==
    IF c.venv = "absent" THEN { c }
    ELSE { [c EXCEPT !.venv = "absent"] }
         \cup { [Fail(c, "Other") EXCEPT !.venv = left] : left \in {c.venv, "partial"} }

---------------------------------------------------------------------------
(* Project (src/src/project.rs) *)

PostInstallActions == {"RunSetupPyDevelop", "None"}

\* command lines given to run and run_no_exec: a binary of the virtualenv
\* and one that is not in it
RunArgs == { <<"python", "-V">>, <<"pytest">> }

\* arguments of bump_in_lock: a name of the demo lock and the same name in
\* another case, one new version
BumpNames == {"a", "A"}

BumpVersions == {"2"}

\* InitOptions: name and version of the new project
InitOptions == { <<"foo", "0.1">> }

LockWrite == <<"write", "paths.lock">>

VenvCreation == <<"python", "-m", "venv">>

\* operations::init: refuse to overwrite setup.py, else write it from the template
operations_init(c, options) ==
    IF c.setup_py.exists THEN { Fail(c, "FileExists") }
    ELSE { [c EXCEPT !.setup_py = File(<< <<"setup", options[1], options[2]>> >>)] }

init(c, options) == operations_init(c, options)

clean(c) == venv_clean(c)

develop(c) ==
    IF ~c.setup_py.exists THEN { Fail(c, "MissingSetupPy") }
    ELSE venv_runner_run(c, "python", <<"python", "setup.py", "develop", "--no-deps">>)

create_venv(c) == venv_create(c)

ensure_venv(c) ==
    IF c.venv # "absent" THEN { c } ELSE create_venv(c)

\* expect_venv that creates the virtualenv it does not find
expect_venv_creates(c) == ensure_venv(c)

expect_venv(c) == venv_expect(c)

install_from_lock(c) ==
    venv_runner_run(c, "python",
        <<"python", "-m", "pip", "install", "--requirement", "paths.lock">>)

\* install that runs setup.py develop whatever the post-install action
install_always_develops(c, post_install_action) ==
    IF ~c.lock_file.exists THEN { Fail(c, "MissingLock") }
    ELSE LET ensured == ensure_venv(c)
             installed == UNION { install_from_lock(d) : d \in Succeeded(ensured) }
             developed == UNION { develop(d) : d \in Succeeded(installed) }
         IN  Aborted(ensured) \cup Aborted(installed) \cup developed

\* install that requires the virtualenv instead of creating it
install_expects_venv(c, post_install_action) ==
    IF ~c.lock_file.exists THEN { Fail(c, "MissingLock") }
    ELSE LET expected == expect_venv(c)
             installed == UNION { install_from_lock(d) : d \in Succeeded(expected) }
             developed == IF post_install_action = "RunSetupPyDevelop"
                          THEN UNION { develop(d) : d \in Succeeded(installed) }
                          ELSE Succeeded(installed)
         IN  Aborted(expected) \cup Aborted(installed) \cup developed

\* install that looks for the lock file only after ensure_venv
install_ensures_first(c, post_install_action) ==
    LET ensured == ensure_venv(c)
        checked == { IF ~d.lock_file.exists THEN Fail(d, "MissingLock") ELSE d :
                        d \in Succeeded(ensured) }
        installed == UNION { install_from_lock(d) : d \in Succeeded(checked) }
        developed == IF post_install_action = "RunSetupPyDevelop"
                     THEN UNION { develop(d) : d \in Succeeded(installed) }
                     ELSE Succeeded(installed)
    IN  Aborted(ensured) \cup Aborted(checked) \cup Aborted(installed) \cup developed

install(c, post_install_action) ==
    IF ~c.lock_file.exists THEN { Fail(c, "MissingLock") }
    ELSE LET ensured == ensure_venv(c)
             installed == UNION { install_from_lock(d) : d \in Succeeded(ensured) }
             developed == IF post_install_action = "RunSetupPyDevelop"
                          THEN UNION { develop(d) : d \in Succeeded(installed) }
                          ELSE Succeeded(installed)
         IN  Aborted(ensured) \cup Aborted(installed) \cup developed

UpgradePip == <<"python", "-m", "pip", "install", "pip", "--upgrade">>

\* upgrade_pip that returns the runner's error as it is
upgrade_pip_unmapped(c) == venv_runner_run(c, "python", UpgradePip)

upgrade_pip(c) ==
    { IF Failed(d) THEN Fail(d, "PipUpgradeFailed") ELSE d :
        d \in venv_runner_run(c, "python", UpgradePip) }

install_editable(c) ==
    venv_runner_run(c, "python",
        <<"python", "-m", "pip", "install", "--editable",
          IF production THEN ".[prod]" ELSE ".[dev]">>)

PipFreeze == <<"pip", "freeze", "--exclude-editable", "--all", "--local">>

run_pip_freeze(c) == venv_runner_get_output(c, "pip", PipFreeze)

\* the filter with the name misspelt
FilterPkgUnderscore(deps) ==
    SelectSeq(deps, LAMBDA x : x.name # "pkg_resources")

\* the records of a parsed freeze output whose name is not pkg-resources
FilterPkgResources(deps) ==
    SelectSeq(deps, LAMBDA x : x.name # "pkg-resources")

\* freeze_output.lines().map(FrozenDependency::from_string)
ParseLines(freeze_output) ==
    [i \in 1..Len(freeze_output) |-> from_string(freeze_output[i])]

\* get_frozen_deps that skips the lines it cannot parse
get_frozen_deps_skips_malformed(c) ==
    LET freeze == run_pip_freeze(c)
    IN  Aborted(freeze) \cup
        { LET good == SelectSeq(ParseLines(d.frozen.out), LAMBDA x : x.ok)
          IN  [d EXCEPT !.frozen.returned = TRUE,
                        !.frozen.deps = FilterPkgResources(
                            [i \in 1..Len(good) |-> good[i].dep])] :
            d \in Succeeded(freeze) }

get_frozen_deps(c) ==
    LET freeze == run_pip_freeze(c)
    IN  Aborted(freeze) \cup
        { LET deps == ParseLines(d.frozen.out)
          IN  IF \E i \in 1..Len(deps) : ~deps[i].ok
              THEN Fail(d, "MalformedDependencyLine")
              ELSE [d EXCEPT !.frozen.returned = TRUE,
                             !.frozen.deps = FilterPkgResources(
                                 [i \in 1..Len(deps) |-> deps[i].dep])] :
            d \in Succeeded(freeze) }

\* operations::lock_dependencies: serialize the records and replace the lock file
write_lock(c, frozen_deps, metadata) ==
    [c EXCEPT !.lock_file = File(Serialize(frozen_deps, metadata)),
              !.trace = Append(@, [cmd |-> LockWrite, exit |-> 0])]

\* lock_dependencies that returns after the freeze was parsed
lock_dependencies_without_write(c) == get_frozen_deps(c)

\* lock_dependencies that writes the new records after the text it finds
lock_dependencies_appends(c) ==
    LET frozen_deps == get_frozen_deps(c)
    IN  Aborted(frozen_deps) \cup
        { [write_lock(d, d.frozen.deps, get_metadata) EXCEPT
              !.lock_file = File(c.lock_file.lines
                                 \o Serialize(d.frozen.deps, get_metadata))] :
            d \in Succeeded(frozen_deps) }

lock_dependencies(c) ==
    LET frozen_deps == get_frozen_deps(c)
    IN  Aborted(frozen_deps) \cup
        { write_lock(d, d.frozen.deps, get_metadata) : d \in Succeeded(frozen_deps) }

\* deserialize: the records of a lock text, its comment lines skipped
IsComment(line) == Len(line) >= 1 /\ line[1] = "#"

Deserialize(text) ==
    LET records == ParseLines(SelectSeq(text, LAMBDA line : ~IsComment(line)))
    IN  [ok |-> \A i \in 1..Len(records) : records[i].ok,
         deps |-> [i \in 1..Len(records) |-> records[i].dep]]

\* the record `d` with its version replaced, or a source reference attached
Bumped(d, version, git) ==
    IF git THEN [d EXCEPT !.source_ref = version] ELSE [d EXCEPT !.version = version]

\* operations::bump_in_lock: read the lock, bump the records named `name`
\* and write all records back in their places
operations_bump_in_lock(c, name, version, git, metadata) ==
    IF ~c.lock_file.exists THEN { Fail(c, "ReadError") }
    ELSE LET old == Deserialize(c.lock_file.lines)
         IN  IF ~old.ok THEN { Fail(c, "MalformedDependencyLine") }
             ELSE IF \A i \in 1..Len(old.deps) : old.deps[i].name # name
             THEN { Fail(c, "DependencyNotFound") }
             ELSE { write_lock(c,
                        [i \in 1..Len(old.deps) |->
                            IF old.deps[i].name = name
                            THEN Bumped(old.deps[i], version, git)
                            ELSE old.deps[i]],
                        metadata) }

\* bump_in_lock that passes the version where the name goes
bump_in_lock_swapped(c, name, version, git) ==
    operations_bump_in_lock(c, version, name, git, get_metadata)

bump_in_lock(c, name, version, git) ==
    operations_bump_in_lock(c, name, version, git, get_metadata)

VenvRemoval == <<"remove", "paths.venv">>

ConstrainedInstall ==
    <<"python", "-m", "pip", "install", "--editable",
      IF production THEN ".[prod]" ELSE ".[dev]", "--constraint", "paths.lock">>

\* the records of `deps` whose name is one of `names`
KeepNamed(deps, names) == SelectSeq(deps, LAMBDA x : x.name \in names)

\* tidy that writes every record of the fresh freeze
tidy_writes_all_frozen(c, activated) ==
    IF activated THEN { Fail(c, "ActiveEnvironmentConflict") }
    ELSE LET removed == { Exited(d, VenvRemoval, IF Failed(d) THEN 1 ELSE 0) :
                            d \in clean(c) }
             created == UNION { create_venv(d) : d \in Succeeded(removed) }
             installed == UNION { IF d.lock_file.exists
                                  THEN venv_runner_run(d, "python", ConstrainedInstall)
                                  ELSE { Fail(Exited(d, ConstrainedInstall, 1),
                                              "ExternalCommandFailed") } :
                                  d \in Succeeded(created) }
             frozen_deps == UNION { get_frozen_deps(d) : d \in Succeeded(installed) }
             written == { IF ~Deserialize(d.lock_file.lines).ok
                          THEN Fail(d, "MalformedDependencyLine")
                          ELSE write_lock(d, d.frozen.deps, get_metadata) :
                          d \in Succeeded(frozen_deps) }
         IN  Aborted(removed) \cup Aborted(created) \cup Aborted(installed)
                 \cup Aborted(frozen_deps) \cup written

\* tidy: refuse inside an activated environment; remove the virtualenv and
\* create it again; install the project under the constraints of the lock
\* file; freeze and filter; write the records whose name the old lock has
tidy(c, activated) ==
    IF activated THEN { Fail(c, "ActiveEnvironmentConflict") }
    ELSE LET removed == { Exited(d, VenvRemoval, IF Failed(d) THEN 1 ELSE 0) :
                            d \in clean(c) }
             created == UNION { create_venv(d) : d \in Succeeded(removed) }
             installed == UNION { IF d.lock_file.exists
                                  THEN venv_runner_run(d, "python", ConstrainedInstall)
                                  ELSE { Fail(Exited(d, ConstrainedInstall, 1),
                                              "ExternalCommandFailed") } :
                                  d \in Succeeded(created) }
             frozen_deps == UNION { get_frozen_deps(d) : d \in Succeeded(installed) }
             written == { LET old == Deserialize(d.lock_file.lines)
                          IN  IF ~old.ok THEN Fail(d, "MalformedDependencyLine")
                              ELSE write_lock(d,
                                       KeepNamed(d.frozen.deps,
                                           { old.deps[i].name : i \in 1..Len(old.deps) }),
                                       get_metadata) :
                          d \in Succeeded(frozen_deps) }
         IN  Aborted(removed) \cup Aborted(created) \cup Aborted(installed)
                 \cup Aborted(frozen_deps) \cup written

\* lock that creates the virtualenv before it looks for setup.py
lock_ensures_first(c) ==
    LET ensured == ensure_venv(c)
        checked == { IF ~d.setup_py.exists THEN Fail(d, "MissingSetupPy") ELSE d :
                        d \in Succeeded(ensured) }
        upgraded == UNION { upgrade_pip(d) : d \in Succeeded(checked) }
        installed == UNION { install_editable(d) : d \in Succeeded(upgraded) }
        locked == UNION { lock_dependencies(d) : d \in Succeeded(installed) }
    IN  Aborted(ensured) \cup Aborted(checked) \cup Aborted(upgraded)
            \cup Aborted(installed) \cup locked

\* lock that installs the project before it upgrades pip
lock_installs_before_upgrade(c) ==
    IF ~c.setup_py.exists THEN { Fail(c, "MissingSetupPy") }
    ELSE LET ensured == ensure_venv(c)
             installed == UNION { install_editable(d) : d \in Succeeded(ensured) }
             upgraded == UNION { upgrade_pip(d) : d \in Succeeded(installed) }
             locked == UNION { lock_dependencies(d) : d \in Succeeded(upgraded) }
         IN  Aborted(ensured) \cup Aborted(installed) \cup Aborted(upgraded)
                 \cup locked

\* lock that goes on when the editable install failed
lock_ignores_install_failure(c) ==
    IF ~c.setup_py.exists THEN { Fail(c, "MissingSetupPy") }
    ELSE LET ensured == ensure_venv(c)
             upgraded == UNION { upgrade_pip(d) : d \in Succeeded(ensured) }
             installed == UNION { install_editable(d) : d \in Succeeded(upgraded) }
             locked == UNION { lock_dependencies([d EXCEPT !.err = "none"]) :
                                 d \in installed }
         IN  Aborted(ensured) \cup Aborted(upgraded) \cup locked

lock(c) ==
    IF ~c.setup_py.exists THEN { Fail(c, "MissingSetupPy") }
    ELSE LET ensured == ensure_venv(c)
             upgraded == UNION { upgrade_pip(d) : d \in Succeeded(ensured) }
             installed == UNION { install_editable(d) : d \in Succeeded(upgraded) }
             locked == UNION { lock_dependencies(d) : d \in Succeeded(installed) }
         IN  Aborted(ensured) \cup Aborted(upgraded) \cup Aborted(installed)
                 \cup locked

\* unix: the resolved binary replaces the process
run(c, args) ==
    LET expected == expect_venv(c)
    IN  Aborted(expected) \cup
        UNION { IF ~Resolves(d.venv, args[1]) THEN { Fail(d, "BinaryNotFound") }
                ELSE ChildOutcomes(d, <<"execv">> \o args, "Other") :
                d \in Succeeded(expected) }

run_no_exec(c, args) ==
    LET expected == expect_venv(c)
    IN  Aborted(expected) \cup
        UNION { venv_runner_run(d, args[1], args) : d \in Succeeded(expected) }

show_deps(c) == venv_runner_run(c, "pip", <<"pip", "list">>)

show_venv_path(c) == { c }

show_venv_bin_path(c) == expect_venv(c)

show_outdated(c) ==
    venv_runner_run(c, "pip", <<"pip", "list", "--outdated", "--format", "columns">>)

---------------------------------------------------------------------------
(* App (src/src/app.rs), the legacy facade.  Its errors are messages; they *)
(* are named here after what they say.                                     *)

AppFreezeOutputs == SeqsUpTo(FreezeLines, MaxStdoutLen)

\* current_dir.join(".venv").join(env_name)
App_venv_path == <<"current_dir", ".venv", "env_name">>

\* the unix build
binaries_subdirs == "bin"

suffix == ""

App_get_path_in_venv(c, name) ==
    LET path == App_venv_path \o <<binaries_subdirs, name \o suffix>>
    IN  IF c.venv = "absent"
        THEN { [Fail(c, "VenvDoesNotExist") EXCEPT !.errPath = App_venv_path] }
        ELSE IF ~BinaryExists(c.venv, name)
        THEN { [Fail(c, "CannotRun") EXCEPT !.errPath = path] }
        ELSE { c }

\* run_venv_cmd that starts the command without looking for its binary
App_run_venv_cmd_without_lookup(c, name, args) ==
    ChildOutcomes(c, <<name>> \o args, "CommandFailed")

App_run_venv_cmd(c, name, args) ==
    LET bin_path == App_get_path_in_venv(c, name)
    IN  Aborted(bin_path) \cup
        UNION { ChildOutcomes(d, <<name>> \o args, "CommandFailed") :
                d \in Succeeded(bin_path) }

\* python_binary does not start, or `python -m venv <venv_path>` exits
\* non-zero and leaves no directory or one without binaries, or it succeeds
App_create_venv(c) ==
    { Fail(c, "Io") }
    \cup { [Fail(Exited(c, VenvCreation, 1), "FailedToCreateVirtualenv")
               EXCEPT !.venv = left] : left \in {"absent", "partial"} }
    \cup { [Exited(c, VenvCreation, 0) EXCEPT !.venv = "ready"] }

\* ensure_venv that creates the virtualenv whether or not it exists
App_ensure_venv_always_creates(c) == App_create_venv(c)

App_ensure_venv(c) ==
    IF c.venv # "absent" THEN { c } ELSE App_create_venv(c)

\* clean that removes the directory without looking whether it is there
App_clean_unchecked(c) ==
    IF c.venv = "absent" THEN { Fail(c, "Io") }
    ELSE { [c EXCEPT !.venv = "absent"] }
         \cup { [Fail(c, "Io") EXCEPT !.venv = left] : left \in {c.venv, "partial"} }

\* clean that removes the project directory instead of venv_path
App_clean_current_dir(c) ==
    { [c EXCEPT !.venv = "absent", !.lock_file = NoFile, !.setup_py = NoFile] }
    \cup { Fail(c, "Io") }

\* remove_dir_all: a failed removal leaves the directory, whole or in part
App_clean(c) ==
    IF c.venv = "absent" THEN { c }
    ELSE { [c EXCEPT !.venv = "absent"] }
         \cup { [Fail(c, "Io") EXCEPT !.venv = left] : left \in {c.venv, "partial"} }

App_install_from_lock(c) ==
    App_run_venv_cmd(c, "python",
        <<"-m", "pip", "install", "--requirement", "requirements_lock_path",
          "--editable", ".[dev]">>)

App_install(c) ==
    LET ensured == App_ensure_venv(c)
        checked == { IF ~d.lock_file.exists THEN Fail(d, "LockDoesNotExist") ELSE d :
                        d \in Succeeded(ensured) }
        installed == UNION { App_install_from_lock(d) : d \in Succeeded(checked) }
    IN  Aborted(ensured) \cup Aborted(checked) \cup installed

App_run(c, args) == App_run_venv_cmd(c, args[1], SubSeq(args, 2, Len(args)))

App_install_editable(c) ==
    App_run_venv_cmd(c, "python", <<"-m", "pip", "install", "-e", ".[dev]">>)

AppPipFreeze == <<"python", "-m", "pip", "freeze", "--exclude-editable">>

\* the captured stdout is written to "requirements.lock", a path relative to
\* the directory of the process
App_run_pip_freeze(c) ==
    LET python == App_get_path_in_venv(c, "python")
    IN  Aborted(python) \cup
        UNION { { Fail(Exited(d, AppPipFreeze, 1), "PipFreezeFailed") }
                \cup { IF working_dir = "cwd"
                       THEN [Exited(d, AppPipFreeze, 0) EXCEPT !.lock_file = File(stdout)]
                       ELSE [Exited(d, AppPipFreeze, 0) EXCEPT !.cwd_lock = File(stdout)] :
                       stdout \in AppFreezeOutputs } :
                d \in Succeeded(python) }

App_freeze(c) ==
    LET ensured == App_ensure_venv(c)
        checked == { IF ~d.setup_py.exists THEN Fail(d, "SetupPyNotFound") ELSE d :
                        d \in Succeeded(ensured) }
        installed == UNION { App_install_editable(d) : d \in Succeeded(checked) }
        frozen_out == UNION { App_run_pip_freeze(d) : d \in Succeeded(installed) }
    IN  Aborted(ensured) \cup Aborted(checked) \cup Aborted(installed) \cup frozen_out

App_show(c) == { c }

\* init that writes setup.py without looking whether it is there
App_init_overwrites(c, name, version) ==
    { [c EXCEPT !.setup_py = File(<< <<"setup", name, version>> >>)] }

App_init(c, name, version) ==
    IF c.setup_py.exists THEN { Fail(c, "SetupPyExists") }
    ELSE { [c EXCEPT !.setup_py = File(<< <<"setup", name, version>> >>)] }

App_upgrade_pip(c) ==
    App_run_venv_cmd(c, "python", <<"-m", "pip", "install", "pip", "--upgrade">>)

---------------------------------------------------------------------------
(* The state machine *)

FileSystem ==
    [venv |-> venv, lock_file |-> lock_file, setup_py |-> setup_py,
     cwd_lock |-> cwd_lock]

\* setup.py and the lock file of the demo project the tests start from
DemoSetupPy == File(<< <<"setup", "demo", "0.1">> >>)

DemoLock == File(Serialize(<<Dep("a", "1", "")>>, get_metadata))

\* lock texts the tests put in place of the lock file
OverrideLocks == { << PinLine("a", "2") >>, << <<"junk">> >> }

Creations(t) == Cardinality({ i \in 1..Len(t) : t[i].cmd = VenvCreation })

Removals(t) == \E i \in 1..Len(t) : t[i].cmd = VenvRemoval

\* the operation `op`, called with `arg`, ran as `c`
Commit(op, arg, c) ==
    /\ venv' = c.venv
    /\ lock_file' = c.lock_file
    /\ setup_py' = c.setup_py
    /\ production' = production
    /\ working_dir' = working_dir
    /\ cwd_lock' = c.cwd_lock
    /\ createdDirs' = IF op \in {"clean", "App::clean"} THEN 0
                      ELSE IF Removals(c.trace) THEN
                          (IF c.venv # "absent" THEN Creations(c.trace) ELSE 0)
                      ELSE IF c.venv # "absent" THEN createdDirs + Creations(c.trace)
                      ELSE createdDirs
    /\ lastOp' = op
    /\ lastArg' = arg
    /\ pre' = FileSystem
    /\ result' = IF Failed(c) THEN c.err ELSE "Ok"
    /\ errPath' = c.errPath
    /\ trace' = c.trace
    /\ frozen' = c.frozen

Init ==
    /\ venv = "absent"
    /\ lock_file \in {NoFile, DemoLock}
    /\ setup_py \in {NoFile, DemoSetupPy}
    /\ production \in BOOLEAN
    /\ working_dir = "cwd"
    /\ cwd_lock = NoFile
    /\ createdDirs = 0
    /\ lastOp = "new"
    /\ lastArg = <<>>
    /\ pre = FileSystem
    /\ result = "Ok"
    /\ errPath = <<>>
    /\ trace = <<>>
    /\ frozen = NoFreeze

Project_init == \E options \in InitOptions : \E c \in init(Begin, options) :
    Commit("init", options, c)

Project_clean == \E c \in clean(Begin) : Commit("clean", <<>>, c)

Project_develop == \E c \in develop(Begin) : Commit("develop", <<>>, c)

Project_install == \E action \in PostInstallActions : \E c \in install(Begin, action) :
    Commit("install", <<action>>, c)

Project_upgrade_pip == \E c \in upgrade_pip(Begin) : Commit("upgrade_pip", <<>>, c)

Project_lock == \E c \in lock(Begin) : Commit("lock", <<>>, c)

Project_bump_in_lock ==
    \E name \in BumpNames : \E version \in BumpVersions : \E git \in BOOLEAN :
        \E c \in bump_in_lock(Begin, name, version, git) :
            Commit("bump_in_lock", <<name, version, IF git THEN "git" ELSE "version">>, c)

Project_run == \E args \in RunArgs : \E c \in run(Begin, args) :
    Commit("run", args, c)

Project_run_no_exec == \E args \in RunArgs : \E c \in run_no_exec(Begin, args) :
    Commit("run_no_exec", args, c)

Project_show_deps == \E c \in show_deps(Begin) : Commit("show_deps", <<>>, c)

Project_show_venv_path == \E c \in show_venv_path(Begin) :
    Commit("show_venv_path", <<>>, c)

Project_show_venv_bin_path == \E c \in show_venv_bin_path(Begin) :
    Commit("show_venv_bin_path", <<>>, c)

Project_show_outdated == \E c \in show_outdated(Begin) :
    Commit("show_outdated", <<>>, c)

\* TestApp::override_lock writes the development lock
override_lock == \E contents \in OverrideLocks :
    /\ ~production
    /\ Commit("override_lock", contents[1], [Begin EXCEPT !.lock_file = File(contents)])

\* TestApp::remove_setup_py
remove_setup_py ==
    /\ setup_py.exists
    /\ Commit("remove_setup_py", <<>>, [Begin EXCEPT !.setup_py = NoFile])

\* TestApp::remove_dev_lock, TestApp::remove_prod_lock
remove_lock ==
    /\ lock_file.exists
    /\ Commit("remove_lock", <<>>, [Begin EXCEPT !.lock_file = NoFile])

Next ==
    \/ Project_init
    \/ Project_clean
    \/ Project_develop
    \/ Project_install
    \/ Project_upgrade_pip
    \/ Project_lock
    \/ Project_bump_in_lock
    \/ Project_run
    \/ Project_run_no_exec
    \/ Project_show_deps
    \/ Project_show_venv_path
    \/ Project_show_venv_bin_path
    \/ Project_show_outdated
    \/ override_lock
    \/ remove_setup_py
    \/ remove_lock

Spec == Init /\ [][Next]_vars

InitApp ==
    /\ venv = "absent"
    /\ lock_file \in {NoFile, DemoLock}
    /\ setup_py \in {NoFile, DemoSetupPy}
    /\ production = FALSE
    /\ working_dir \in {"cwd", "elsewhere"}
    /\ cwd_lock = NoFile
    /\ createdDirs = 0
    /\ lastOp = "App::new"
    /\ lastArg = <<>>
    /\ pre = FileSystem
    /\ result = "Ok"
    /\ errPath = <<>>
    /\ trace = <<>>
    /\ frozen = NoFreeze

Do_App_clean == \E c \in App_clean(Begin) : Commit("App::clean", <<>>, c)

Do_App_install == \E c \in App_install(Begin) : Commit("App::install", <<>>, c)

Do_App_run == \E args \in RunArgs : \E c \in App_run(Begin, args) :
    Commit("App::run", args, c)

Do_App_freeze == \E c \in App_freeze(Begin) : Commit("App::freeze", <<>>, c)

Do_App_show == \E c \in App_show(Begin) : Commit("App::show", <<>>, c)

Do_App_init == \E options \in InitOptions :
    \E c \in App_init(Begin, options[1], options[2]) :
        Commit("App::init", options, c)

Do_App_upgrade_pip == \E c \in App_upgrade_pip(Begin) :
    Commit("App::upgrade_pip", <<>>, c)

NextApp ==
    \/ Do_App_clean
    \/ Do_App_install
    \/ Do_App_run
    \/ Do_App_freeze
    \/ Do_App_show
    \/ Do_App_init
    \/ Do_App_upgrade_pip
    \/ remove_setup_py
    \/ remove_lock

SpecApp == InitApp /\ [][NextApp]_vars

\* tidy, called from a shell with or without an activated environment
Tidy == \E activated \in BOOLEAN : \E c \in tidy(Begin, activated) :
    Commit("tidy", << IF activated THEN "activated" ELSE "not activated" >>, c)

NextTidy ==
    \/ Tidy
    \/ Project_lock
    \/ Project_bump_in_lock
    \/ override_lock
    \/ remove_lock

SpecTidy == Init /\ [][NextTidy]_vars

---------------------------------------------------------------------------
(* Properties *)

Cmds(t) == { t[i].cmd : i \in 1..Len(t) }

\* the operations that call ensure_venv, and the states in which they get to it
EnsureVenvCalled ==
    \/ lastOp = "install" /\ pre.lock_file.exists
    \/ lastOp = "lock" /\ pre.setup_py.exists
    \/ lastOp \in {"App::install", "App::freeze"}

EnsureVenvCallers == {"install", "lock", "App::install", "App::freeze"}

CleanOps == {"clean", "App::clean"}

\* C1: install called without a lock file fails with MissingLock, leaves the
\* virtualenv (and the rest of the project) as it was and starts no child process
C1_InstallMissingLock ==
    (lastOp = "install" /\ ~pre.lock_file.exists)
        => /\ result = "MissingLock"
           /\ FileSystem = pre
           /\ trace = <<>>

C1_Witness ==
    /\ lastOp = "install" /\ ~pre.lock_file.exists
    /\ pre.venv = "absent" /\ result = "MissingLock"

\* C2: run, run_no_exec, show_deps and show_outdated called without a
\* virtualenv fail with MissingEnvironment before starting any child process
C2_MissingEnvironment ==
    (lastOp \in {"run", "run_no_exec", "show_deps", "show_outdated"}
        /\ pre.venv = "absent")
        => /\ result = "MissingEnvironment"
           /\ trace = <<>>

\* C3 as stated: in a sequence of ensure_venv calls with no clean between them
\* the creation command runs at most once; here for two calls in a row
C3_CreatesAtMostOnce ==
    [][(/\ lastOp \in EnsureVenvCallers /\ Creations(trace) >= 1
        /\ lastOp' \in EnsureVenvCallers)
          => Creations(trace') = 0]_vars

\* C3 amended: with the virtualenv directory in place ensure_venv succeeds
\* without running the creation command, so between two cleans at most one
\* creation command leaves a directory (it runs again only after a creation
\* that failed and left none)
C3_EnsureVenvIdempotent ==
    /\ (EnsureVenvCalled /\ pre.venv # "absent")
          => /\ Creations(trace) = 0
             /\ result \notin {"EnvironmentCreationFailed", "FailedToCreateVirtualenv", "Io"}
             /\ venv = pre.venv
    /\ Creations(trace) >= 1 => pre.venv = "absent"
    /\ createdDirs <= 1

C3_Witness ==
    /\ EnsureVenvCalled /\ pre.venv # "absent"
    /\ createdDirs = 1 /\ result = "Ok"

\* C4: clean is a successful no-op without a virtualenv, and a clean that
\* succeeds leaves none, so the clean after it succeeds too
C4_CleanRemovesVenv ==
    lastOp \in CleanOps
        => /\ pre.venv = "absent" => (result = "Ok" /\ FileSystem = pre /\ trace = <<>>)
           /\ result = "Ok" => venv = "absent"

C4_Witness ==
    /\ lastOp \in CleanOps /\ pre.venv = "absent"
    /\ result = "Ok" /\ venv = "absent"

\* C5: clean, whether it succeeds or fails, leaves the lock file and setup.py
\* as they were
C5_CleanTouchesOnlyVenv ==
    lastOp \in CleanOps
        => /\ lock_file = pre.lock_file /\ setup_py = pre.setup_py
           /\ cwd_lock = pre.cwd_lock

C5_Witness ==
    /\ lastOp \in CleanOps /\ pre.venv = "ready" /\ venv = "absent"
    /\ lock_file.exists /\ setup_py.exists

\* C6: lock called without setup.py fails with MissingSetupPy before anything
\* else: no virtualenv created, no child process, no lock written
C6_LockMissingSetupPy ==
    (lastOp = "lock" /\ ~pre.setup_py.exists)
        => /\ result = "MissingSetupPy"
           /\ FileSystem = pre
           /\ trace = <<>>

C6_Witness ==
    /\ lastOp = "lock" /\ ~pre.setup_py.exists
    /\ pre.venv = "absent" /\ ~pre.lock_file.exists

\* the editable install, the freeze and the lock write
AfterUpgrade ==
    { <<"python", "-m", "pip", "install", "--editable", ".[prod]">>,
      <<"python", "-m", "pip", "install", "--editable", ".[dev]">>,
      PipFreeze, LockWrite }

\* the pip upgrade of the last lock failed: pip exited non-zero, or python
\* is not in the virtualenv
UpgradeFailed ==
    /\ lastOp = "lock" /\ pre.setup_py.exists
    /\ \/ pre.venv = "partial"
       \/ \E i \in 1..Len(trace) : trace[i] = [cmd |-> UpgradePip, exit |-> 1]

\* C7: when the pip upgrade of lock fails, whatever the cause, lock returns
\* PipUpgradeFailed and does not install, freeze or write the lock
C7_PipUpgradeFatal ==
    UpgradeFailed
        => /\ result = "PipUpgradeFailed"
           /\ Cmds(trace) \cap AfterUpgrade = {}
           /\ ~frozen.ran
           /\ lock_file = pre.lock_file

C7_Witness ==
    /\ UpgradeFailed /\ pre.venv = "ready" /\ pre.lock_file.exists
    /\ result = "PipUpgradeFailed"

\* C8: a step of lock that fails is the last one to run, lock then returns an
\* error and the lock file is as it was before the call
C8_LockAbortsOnFailure ==
    lastOp = "lock"
        => /\ \A i \in 1..Len(trace) :
                trace[i].exit # 0 => (i = Len(trace) /\ result # "Ok")
           /\ (frozen.ran /\ ~frozen.returned)
                => (result # "Ok" /\ trace[Len(trace)].cmd = PipFreeze)
           /\ result # "Ok"
                => (lock_file = pre.lock_file /\ LockWrite \notin Cmds(trace))
           /\ result = "Ok" => trace[Len(trace)].cmd = LockWrite

C8_Witness ==
    /\ lastOp = "lock" /\ result = "ExternalCommandFailed"
    /\ Len(trace) = 3 /\ trace[3].exit = 1
    /\ pre.lock_file.exists /\ lock_file = pre.lock_file

\* a line of one of the two forms, `name==version` and `name @ <ref>`
WellFormed(line) == Len(line) = 3 /\ line[2] \in {"==", "@"}

\* the lines of a freeze output that are not pkg-resources', and the place
\* of such a line among them
Kept(out) == { i \in 1..Len(out) : out[i][1] # "pkg-resources" }

Rank(out, i) == Cardinality({ j \in Kept(out) : j <= i })

\* C9: of a freeze output with only well-formed lines get_frozen_deps returns
\* the parsed lines without those named pkg-resources: each other line once,
\* in the order of the output
C9_FrozenDepsFiltered ==
    (frozen.ran /\ \A i \in 1..Len(frozen.out) : WellFormed(frozen.out[i]))
        => /\ frozen.returned
           /\ Len(frozen.deps) = Cardinality(Kept(frozen.out))
           /\ \A i \in Kept(frozen.out) :
                frozen.deps[Rank(frozen.out, i)] = from_string(frozen.out[i]).dep

C9_Witness ==
    /\ frozen.returned /\ Len(frozen.out) = 2
    /\ frozen.out[1] = PinLine("pkg-resources", "0")
    /\ frozen.deps = << Dep("b", "", "git") >>

\* C10: one malformed line anywhere in the freeze output makes get_frozen_deps
\* fail with MalformedDependencyLine: it returns no list and lock writes no
\* lock file
C10_MalformedLineFails ==
    (frozen.ran /\ \E i \in 1..Len(frozen.out) : ~WellFormed(frozen.out[i]))
        => /\ lastOp = "lock"
           /\ result = "MalformedDependencyLine"
           /\ ~frozen.returned /\ frozen.deps = <<>>
           /\ lock_file = pre.lock_file
           /\ LockWrite \notin Cmds(trace)

C10_Witness ==
    /\ frozen.ran /\ Len(frozen.out) = 2
    /\ WellFormed(frozen.out[1]) /\ ~WellFormed(frozen.out[2])
    /\ result = "MalformedDependencyLine" /\ ~lock_file.exists

InitOps == {"init", "App::init"}

\* C11: init fails on an existing setup.py and leaves its content as it was;
\* a successful init on a project without setup.py writes it; no other
\* operation makes setup.py appear
C11_InitOnlyCreatesSetupPy ==
    /\ (lastOp \in InitOps /\ pre.setup_py.exists)
          => (result # "Ok" /\ setup_py = pre.setup_py)
    /\ (lastOp \in InitOps /\ ~pre.setup_py.exists /\ result = "Ok")
          => setup_py = File(<< <<"setup", lastArg[1], lastArg[2]>> >>)
    /\ (~pre.setup_py.exists /\ setup_py.exists) => lastOp \in InitOps

C11_Witness ==
    /\ lastOp \in InitOps /\ pre.setup_py = DemoSetupPy
    /\ result # "Ok" /\ setup_py = DemoSetupPy

\* C12: a lock that returns Ok leaves setup.py, the virtualenv and the lock
\* file in place; an install that returns Ok leaves the virtualenv and the
\* lock file in place, the lock file with the content it had before
C12_StateAfterSuccess ==
    /\ (lastOp = "lock" /\ result = "Ok")
          => (setup_py.exists /\ venv # "absent" /\ lock_file.exists)
    /\ (lastOp = "install" /\ result = "Ok")
          => (venv # "absent" /\ lock_file.exists /\ lock_file = pre.lock_file)

C12_Witness ==
    /\ lastOp = "lock" /\ result = "Ok"
    /\ pre.venv = "absent" /\ ~pre.lock_file.exists
    /\ venv = "ready" /\ lock_file.exists

\* C13: a step that takes the virtualenv from absent to present is a step of
\* install or of lock
C13_VenvCreatedByInstallOrLock ==
    (pre.venv = "absent" /\ venv # "absent") => lastOp \in {"install", "lock"}

C13_Witness ==
    /\ pre.venv = "absent" /\ venv = "ready"
    /\ lastOp = "install" /\ result = "Ok"

InstallFromLock == <<"python", "-m", "pip", "install", "--requirement", "paths.lock">>

LockRecords(file) == SelectSeq(file.lines, LAMBDA line : ~IsComment(line))

\* C15: after a lock that returns Ok the lock file holds the header and, in
\* the order of the freeze of that call, the lines of that freeze that are
\* not pkg-resources'; nothing else, whatever the lock file held before
C15_LockIsFullReplacement ==
    (lastOp = "lock" /\ result = "Ok")
        => /\ Len(LockRecords(lock_file)) = Cardinality(Kept(frozen.out))
           /\ \A i \in Kept(frozen.out) :
                LockRecords(lock_file)[Rank(frozen.out, i)] = frozen.out[i]
           /\ Len(lock_file.lines) = 3 + Cardinality(Kept(frozen.out))

C15_Witness ==
    /\ lastOp = "lock" /\ result = "Ok"
    /\ LockRecords(pre.lock_file) = << PinLine("a", "2") >>
    /\ frozen.out = << RefLine("b", "git") >>
    /\ LockRecords(lock_file) = << RefLine("b", "git") >>

\* C17: on a lock file that parses, bump_in_lock with a name of no record
\* fails with DependencyNotFound and leaves the file as it was; with the name
\* of a record it writes back as many records, each in its place: the others
\* as they were, the named one with its name kept and the new version or
\* source reference
C17_BumpNeverInserts ==
    (lastOp = "bump_in_lock" /\ pre.lock_file.exists
        /\ Deserialize(pre.lock_file.lines).ok)
        => LET old == Deserialize(pre.lock_file.lines).deps
               new == Deserialize(lock_file.lines)
               name == lastArg[1]
               version == lastArg[2]
               git == (lastArg[3] = "git")
           IN  IF \A i \in 1..Len(old) : old[i].name # name
               THEN result = "DependencyNotFound" /\ lock_file = pre.lock_file
               ELSE /\ result = "Ok"
                    /\ new.ok /\ Len(new.deps) = Len(old)
                    /\ \A i \in 1..Len(old) :
                         /\ new.deps[i].name = old[i].name
                         /\ old[i].name # name => new.deps[i] = old[i]
                         /\ (old[i].name = name /\ git)
                              => new.deps[i].source_ref = version
                         /\ (old[i].name = name /\ ~git /\ old[i].source_ref = "")
                              => new.deps[i] = Dep(name, version, "")

C17_Witness ==
    /\ lastOp = "bump_in_lock" /\ result = "Ok" /\ lastArg[3] = "version"
    /\ LockRecords(pre.lock_file) = << RefLine("b", "git"), PinLine("a", "1") >>
    /\ LockRecords(lock_file) = << RefLine("b", "git"), PinLine("a", "2") >>

\* the steps of lock that start a child process or write the lock, in the
\* order claimed; the creation is the step ensure_venv takes without a virtualenv
LockPipeline ==
    << VenvCreation,
       UpgradePip,
       <<"python", "-m", "pip", "install", "--editable",
         IF production THEN ".[prod]" ELSE ".[dev]">>,
       PipFreeze,
       LockWrite >>

\* C19: what a lock did is a prefix of the pipeline (creation when there was
\* no virtualenv, pip upgrade, editable install with the extra of the mode,
\* freeze, write), nothing of it without setup.py, every step but the last
\* one done having succeeded, the write only after the freeze was parsed
C19_LockPipelineOrder ==
    lastOp = "lock"
        => LET steps == IF pre.venv = "absent" THEN LockPipeline
                        ELSE Tail(LockPipeline)
           IN  /\ ~pre.setup_py.exists => trace = <<>>
               /\ Len(trace) <= Len(steps)
               /\ \A i \in 1..Len(trace) :
                    /\ trace[i].cmd = steps[i]
                    /\ i < Len(trace) => trace[i].exit = 0
               /\ LockWrite \in Cmds(trace) => (frozen.returned /\ result = "Ok")

C19_Witness ==
    /\ lastOp = "lock" /\ result = "Ok" /\ production
    /\ pre.venv = "absent" /\ Len(trace) = 5
    /\ trace[3].cmd[6] = ".[prod]" /\ trace[5].cmd = LockWrite

\* the operations that run one command of the virtualenv, and its name
RunsOneCommand == {"App::run", "App::upgrade_pip", "run", "run_no_exec"}

CommandName == IF lastOp = "App::upgrade_pip" THEN "python" ELSE lastArg[1]

\* C20: a command of the virtualenv is started only when the virtualenv
\* exists and holds its binary; without the virtualenv, or without the binary,
\* the operation returns the error for that case and starts no process
C20_LaunchOnlyResolvedBinary ==
    /\ lastOp \in RunsOneCommand
          => /\ pre.venv = "absent"
                  => /\ result \in {"VenvDoesNotExist", "MissingEnvironment"}
                     /\ result = "VenvDoesNotExist"
                          => errPath = <<"current_dir", ".venv", "env_name">>
                     /\ trace = <<>>
             /\ (pre.venv # "absent" /\ ~BinaryExists(pre.venv, CommandName))
                  => /\ result \in {"CannotRun", "BinaryNotFound"}
                     /\ result = "CannotRun"
                          => errPath = <<"current_dir", ".venv", "env_name",
                                         "bin", CommandName>>
                     /\ trace = <<>>
             /\ trace # <<>>
                  => (BinaryExists(pre.venv, CommandName) /\ Len(trace) = 1)
    /\ lastOp \in {"App::install", "App::freeze"}
          => \A i \in 1..Len(trace) :
                trace[i].cmd # VenvCreation => BinaryExists(venv, trace[i].cmd[1])

C20_Witness ==
    /\ lastOp = "App::run" /\ lastArg[1] = "pytest"
    /\ pre.venv = "ready" /\ result = "CannotRun" /\ trace = <<>>
    /\ errPath = <<"current_dir", ".venv", "env_name", "bin", "pytest">>

\* the names of the records of a lock file
LockNames(file) == { line[1] : line \in { file.lines[i] : i \in 1..Len(file.lines) } }
                       \ {"#"}

\* C18: the lock a tidy writes holds exactly the lines of the fresh freeze
\* whose name the old lock has (pkg-resources' aside), so each with its
\* freshly frozen version, and none that the old lock did not name
C18_TidyKeepsTrackedOnly ==
    (lastOp = "tidy" /\ result = "Ok")
        => LET tracked == { i \in Kept(frozen.out) :
                              frozen.out[i][1] \in LockNames(pre.lock_file) }
               new == LockRecords(lock_file)
           IN  /\ { new[i] : i \in 1..Len(new) } = { frozen.out[i] : i \in tracked }
               /\ Len(new) = Cardinality(tracked)

C18_Witness ==
    /\ lastOp = "tidy" /\ result = "Ok"
    /\ LockRecords(pre.lock_file) = << PinLine("a", "2") >>
    /\ frozen.out = << RefLine("b", "git"), PinLine("a", "1") >>
    /\ LockRecords(lock_file) = << PinLine("a", "1") >>

SetupPyDevelop == <<"python", "setup.py", "develop", "--no-deps">>

\* the install from the lock file of the last operation exited zero
InstalledFromLock ==
    \E i \in 1..Len(trace) : trace[i] = [cmd |-> InstallFromLock, exit |-> 0]

\* C21: in install, setup.py develop runs only when RunSetupPyDevelop was
\* asked for, as the last step and after the install from the lock exited
\* zero; asked for without setup.py, install returns MissingSetupPy once the
\* install from the lock is done, and does not run it
C21_DevelopAfterInstall ==
    lastOp = "install"
        => /\ SetupPyDevelop \in Cmds(trace)
                => /\ lastArg[1] = "RunSetupPyDevelop"
                   /\ pre.setup_py.exists
                   /\ Len(trace) >= 2
                   /\ trace[Len(trace)].cmd = SetupPyDevelop
                   /\ trace[Len(trace) - 1] = [cmd |-> InstallFromLock, exit |-> 0]
           /\ lastArg[1] = "None" => SetupPyDevelop \notin Cmds(trace)
           /\ (lastArg[1] = "RunSetupPyDevelop" /\ InstalledFromLock)
                => IF pre.setup_py.exists
                   THEN SetupPyDevelop \in Cmds(trace)
                   ELSE result = "MissingSetupPy" /\ SetupPyDevelop \notin Cmds(trace)
           /\ result = "MissingSetupPy" => InstalledFromLock

C21_Witness ==
    /\ lastOp = "install" /\ lastArg[1] = "RunSetupPyDevelop"
    /\ ~pre.setup_py.exists /\ pre.venv = "absent"
    /\ result = "MissingSetupPy" /\ InstalledFromLock /\ venv = "ready"

\* C22: App::install called without requirements.lock fails and leaves the
\* virtualenv as it was: none is created
C22_AppInstallMissingLock ==
    (lastOp = "App::install" /\ ~pre.lock_file.exists)
        => /\ result # "Ok"
           /\ venv = pre.venv
           /\ VenvCreation \notin Cmds(trace)

\* C23: whatever working_dir is, an App::freeze that returns Ok has written
\* the requirements.lock of the project, the file App::install looks for,
\* and no other file
C23_FreezeWritesProjectLock ==
    (lastOp = "App::freeze" /\ result = "Ok")
        => /\ lock_file.exists
           /\ cwd_lock = pre.cwd_lock

===========================================================================
